---- MODULE Spec2Model ----
(***************************************************************************)
(* State-machine model of the album cache, the background refreshes, the  *)
(* video augmentation pipeline, the secure reference mapping               *)
(* (storeImageUrl, getImageUrl, the hourly cleanup) and the image          *)
(* endpoint of icloud-photo-album (the server of src/unnamed/part_000).    *)
(*                                                                         *)
(* Granularity: one step per settlement of an awaited collaborator call   *)
(* (album fetch, duration probe, extraction, transcription,               *)
(* summarization) together with everything the awaiting function then     *)
(* runs up to its next such await.  A write or unlink of a cache file      *)
(* takes effect in the step that issues it; the instant of that step is    *)
(* chosen by the collaborator, so every order of the file operations of    *)
(* concurrent executions is still reached.  setCachedData takes two       *)
(* steps: its getCachedData settles, the reloading flag is read and the    *)
(* record is written; its writeFile settles and the flag is set.           *)
(***************************************************************************)
EXTENDS Integers, Sequences, FiniteSets, TLC

\* ------------------------------------------------------------------ bounds
MaxTime == 2
MaxTasks == 2
MaxProcs == 2
MaxJobs == 3
MaxRuns == 2
MaxIds == 2
MaxStores == 2
MaxUrls == 2
MaxLateTime == 4

Tokens == {"A", "B"}
\* two more tokens a request may carry, one of them with a character that is
\* not safe in a file name
AllTokens == Tokens \cup {"C.d", "C_d"}
\* the albums "A" and "B" hold photos only; the albums "U" and "V" hold one
\* video each, the items <<albumToken, photoGuid>>
Items == {<<"U", "u">>, <<"V", "v">>}

\* ------------------------------------------------------- program constants
CACHE_TTL == 1
MAX_TRACKED_TOKENS == 3
BATCH_SIZE == 1
TOKEN_ACCESS_TTL == 2
MAX_CONCURRENT_VIDEO_PROCESSES == 1
MIN_DURATION == 10
MIN_TRANSCRIPT_CHARS == 50
MIN_MEANINGFUL_WORDS == 15
IMAGE_URL_MAP_TTL == 1
IMAGE_RETENTION_TTL == 2

Null == -1

\* ------------------------------------------------------------- transcripts
\* A transcript is the sequence of the words whisper printed, joined by one
\* space (transcribeAudio: transcription += word + ' ', then trim()).
\*   "M"  the marker "(background music)"     18 characters
\*   "W"  a spoken word such as "hello"        5 characters
\*   "S"  a short word such as "ok"            2 characters
TokenKinds == {"M", "W", "S"}

TokLen(tok) == IF tok = "M" THEN 18 ELSE IF tok = "W" THEN 5 ELSE 2

\* the characters of the first n entries of s
RECURSIVE SumLen(_, _)
SumLen(s, n) == IF n = 0 THEN 0 ELSE TokLen(s[n]) + SumLen(s, n - 1)

\* transcription.length of the joined, trimmed string
TranscriptLength(s) == IF s = <<>> THEN 0 ELSE SumLen(s, Len(s)) + Len(s) - 1

HasParen(tok) == tok = "M"
HasMusic(tok) == tok = "M"

\* /\(.*music.*\)/gi on the one-line transcript: "." matches everything but a
\* newline and the transcript has none, so the greedy match runs from the
\* first "(" that has "music" and a ")" behind it up to the LAST ")" of the
\* string, and the global search finds nothing after it.  The span is given
\* as <<first, last>> token index, <<0, 0>> for no match.
GreedyMatchSpan(s) ==
  LET parens == {i \in 1..Len(s) : HasParen(s[i])}
      music == {i \in 1..Len(s) : HasMusic(s[i])}
      Min(S) == CHOOSE x \in S : \A y \in S : x <= y
      Max(S) == CHOOSE x \in S : \A y \in S : x >= y
  IN IF music = {} THEN <<0, 0>>
     ELSE <<Min({i \in parens : i <= Max(music)}), Max(parens)>>

\* normalizedTranscript.match(pattern) summed over the four patterns; the
\* sound, noise and ambient patterns match nothing in these transcripts
musicMarkerCount(s) == IF GreedyMatchSpan(s) = <<0, 0>> THEN 0 ELSE 1

\* contentWithoutMarkers: the match replaced by ' '
contentWithoutMarkers(s) ==
  LET span == GreedyMatchSpan(s)
  IN IF span = <<0, 0>> THEN s
     ELSE SubSeq(s, 1, span[1] - 1) \o SubSeq(s, span[2] + 1, Len(s))

\* .filter(word => word.length > 2).length
meaningfulWordCount(s) ==
  LET content == contentWithoutMarkers(s)
  IN Cardinality({i \in 1..Len(content) : TokLen(content[i]) > 2})

\* markerPercentage > 0.7 with markerPercentage = count * 20 / length
MarkerDense(s) == musicMarkerCount(s) * 20 * 10 > 7 * TranscriptLength(s)

\* the outcome of the two transcript gates: "transcription_too_short",
\* "low_quality_transcription" or "pass"
TranscriptGate(s) ==
  IF TranscriptLength(s) < MIN_TRANSCRIPT_CHARS THEN "transcription_too_short"
  ELSE IF MarkerDense(s) \/ meaningfulWordCount(s) < MIN_MEANINGFUL_WORDS
       THEN "low_quality_transcription"
       ELSE "pass"

\* builders of input transcripts
Rep(tok, n) == [i \in 1..n |-> tok]

\* k markers with n words dealt round-robin into the k-1 gaps between them
RECURSIVE Interleave(_, _)
Interleave(k, n) ==
  IF k = 0 THEN <<>>
  ELSE IF k = 1 THEN <<"M">>
  ELSE LET here == (n + k - 2) \div (k - 1)
       IN <<"M">> \o Rep("W", here) \o Interleave(k - 1, n - here)

\* pre words, k markers with n words between them, post words
Transcript(pre, k, n, post) == Rep("W", pre) \o Interleave(k, n) \o Rep("W", post)

\* The transcripts the gate is run on by itself: 8 words of 5 letters, some
\* before the first marker and the others after the last one, with 64 to 80
\* markers (about 90% of the entries), and either nothing or 30 more words
\* of 5 letters between the markers.
MarkerCounts == 64..80

GateInputs ==
  {Transcript(pre, k, n, 8 - pre) : pre \in 0..8, k \in MarkerCounts, n \in {0, 30}}

Count(s, tok) == Cardinality({i \in 1..Len(s) : s[i] = tok})


\* ------------------------------------------------------------------- state
VARIABLES
  now,                      \* Date.now(), in ticks
  albumFile,                \* cache/albums/<token>.json
  reloadingState,           \* the in-memory Map token -> boolean
  recentlyAccessedTokens,   \* the in-memory Map token -> lastAccessed, in insertion order
  refreshJob,               \* the run of the scheduled refresh job, if one is going
  tasks,                    \* album requests and refreshes in progress
  augFile,                  \* cache/video-augmentations/<token>_<guid>.json
  procs,                    \* calls of processVideoAugmentation
  VIDEO_PROCESSING_QUEUE,
  ACTIVE_VIDEO_PROCESSES,
  jobs,                     \* the promises queueVideoProcessing returned
  transcript,               \* input of the transcript gate
  gate,                     \* its outcome
  runIn,                    \* a call run on its own: its input, what the collaborators return
  runOut,                   \* what that call returned or answered
  runs,                     \* the number of such calls of the pipeline so far
  lookupFile,               \* cache/mappings/_lookup_<urlHash>.json
  mappingFile,              \* cache/mappings/<secureId>.json
  imageFile,                \* cache/images/<secureId>.jpg
  stores,                   \* calls of storeImageUrl
  minted,                   \* the number of secure ids generated so far
  lastId,                   \* per URL, the id a completed call returned and whose records stand
  lastPair,                 \* per URL, the ids of two successive calls between which they stood
  returned,                 \* per URL, the ids storeImageUrl returned
  req                       \* the image request in progress

vars == <<now, albumFile, reloadingState, recentlyAccessedTokens, refreshJob, tasks,
          augFile, procs, VIDEO_PROCESSING_QUEUE, ACTIVE_VIDEO_PROCESSES, jobs,
          transcript, gate, runIn, runOut, runs,
          lookupFile, mappingFile, imageFile, stores, minted, lastId, lastPair,
          returned, req>>

albumVars == <<now, albumFile, reloadingState, recentlyAccessedTokens, refreshJob, tasks>>
queueVars == <<VIDEO_PROCESSING_QUEUE, ACTIVE_VIDEO_PROCESSES, jobs>>
pipeVars == <<augFile, procs, VIDEO_PROCESSING_QUEUE, ACTIVE_VIDEO_PROCESSES, jobs>>
gateVars == <<transcript, gate>>
runVars == <<runIn, runOut, runs>>
storeVars == <<lookupFile, mappingFile, stores, minted, lastId, lastPair, returned>>
imageVars == <<imageFile, req>>

NoRecord == [kind |-> "none"]
Idle == [pc |-> "idle"]
NoItem == <<"-", "-">>
NoInput == [item |-> NoItem]
NoOutput == [out |-> "none"]

\* ------------------------------------------------- augmentation pipeline
\* what ffprobe printed, in tenths of a second (-1: nothing parseable)
ProbeOutputs == {-1, 0, 95, 100}

\* getVideoDuration: null for NaN or <= 0, else Math.floor(duration)
getVideoDuration(raw) == IF raw <= 0 THEN Null ELSE raw \div 10

\* the duration test with the comparison turned round
IsTooShortFlipped(duration) == duration # Null /\ duration > MIN_DURATION

\* "duration !== null && duration < 10"
IsTooShort(duration) == duration # Null /\ duration < MIN_DURATION

\* An Error is modelled by the marker substrings its message contains and by
\* the code of its .cause ("none": no cause).
Err(msg, cause) == [msg |-> msg, cause |-> cause]

\* How extractAudioFromVideo ends: "end" (audio extracted), a failed download
\* (fetch) or a ffmpeg event after a good download.
DownloadFailures == {"http401", "http403", "http500", "fetchFailed", "abortTimeout"}
FfmpegFailures == {"crash", "error", "timeout"}
ExtractResults == {"end"} \cup DownloadFailures \cup FfmpegFailures

DownloadError(res) ==
  CASE res \in {"http401", "http403"} -> Err({"VIDEO_URL_EXPIRED"}, "none") \* VIDEO_URL_EXPIRED: 401 ...
    [] res = "http500" -> Err({}, "none")                       \* Failed to download video: 500 ...
    [] res = "fetchFailed" -> Err({"fetch failed"}, "ECONNRESET") \* TypeError: fetch failed
    [] res = "abortTimeout" -> Err({"timeout"}, "none")         \* The operation was aborted due to timeout

\* the message of the error ffmpeg's 'error' event carries
FfmpegRawError(ev) ==
  CASE ev = "crash" -> Err({"SIGSEGV", "killed"}, "none")  \* ffmpeg was killed with signal SIGSEGV
    [] ev = "error" -> Err({}, "none")                     \* ffmpeg exited with code 1: ...

\* .on('error'): a crash is rejected under a new message, "FFmpeg process
\* crashed. This may indicate an incompatible binary or corrupted video
\* file.", which holds none of the markers
FfmpegOnError(err) ==
  IF "SIGSEGV" \in err.msg \/ "killed" \in err.msg THEN Err({}, "none") ELSE err

\* the rejections a ffmpeg timeout issues, in order: the timer rejects with
\* "FFmpeg timeout after 5 minutes" after command.kill('SIGTERM'), then the
\* 'error' event of the kill ("ffmpeg was killed with signal SIGTERM")
\* reaches .on('error')
TimeoutRejects ==
  <<Err({"timeout"}, "none"), FfmpegOnError(Err({"killed"}, "none"))>>

\* extractAudioFromVideo rejecting with the last rejection issued
ExtractErrorLastReject(res) ==
  IF res \in DownloadFailures THEN DownloadError(res)
  ELSE IF res = "timeout" THEN TimeoutRejects[Len(TimeoutRejects)]
  ELSE FfmpegOnError(FfmpegRawError(res))

\* what extractAudioFromVideo rejects with: a promise keeps its first
\* rejection
ExtractError(res) ==
  IF res \in DownloadFailures THEN DownloadError(res)
  ELSE IF res = "timeout" THEN Head(TimeoutRejects)
  ELSE FfmpegOnError(FfmpegRawError(res))

\* the collaborators extractAudioFromVideo invoked
ExtractCalls(res) == IF res \in DownloadFailures THEN {"download"} ELSE {"download", "ffmpeg"}

TransientMarkers == {"VIDEO_URL_EXPIRED", "NETWORK_ERROR", "ETIMEDOUT", "fetch failed", "timeout"}

\* the outer catch's test for "don't cache, allow retry"
IsTransient(err) == err.msg \cap TransientMarkers # {}

Skip(reason, duration) == [kind |-> "skip", reason |-> reason, duration |-> duration]
Success == [kind |-> "success", reason |-> "none", duration |-> Null]

\* How processVideoAugmentation leaves an await: "next" goes on to the next
\* collaborator, "resolve" writes rec to the cache file and returns it,
\* "throw" enters the outer catch with err.
GoOn == [act |-> "next", rec |-> NoRecord, err |-> Err({}, "none")]
Resolves(rec) == [act |-> "resolve", rec |-> rec, err |-> Err({}, "none")]
Throws(err) == [act |-> "throw", rec |-> NoRecord, err |-> err]

\* after "await getVideoDuration(videoUrl)"
AfterProbe(raw) ==
  IF IsTooShort(getVideoDuration(raw))
  THEN Resolves(Skip("too_short", getVideoDuration(raw)))
  ELSE GoOn

\* catch (extractError) writing a skip record for an expired link as well
ExtractCatchSkipsExpired(err) ==
  IF "SIGSEGV" \in err.msg THEN Resolves(Skip("ffmpeg_crash", Null))
  ELSE IF "VIDEO_URL_EXPIRED" \in err.msg THEN Resolves(Skip("url_expired", Null))
  ELSE Throws(err)

\* catch (extractError)
ExtractCatch(err) ==
  IF "SIGSEGV" \in err.msg THEN Resolves(Skip("ffmpeg_crash", Null))
  ELSE IF "VIDEO_URL_EXPIRED" \in err.msg THEN Throws(Err({"VIDEO_URL_EXPIRED"}, "none"))
  ELSE IF err.cause # "none"
          /\ (err.cause = "ETIMEDOUT" \/ "fetch failed" \in err.msg \/ "timeout" \in err.msg)
       THEN Throws(Err({"NETWORK_ERROR"} \cup err.msg, "none"))
  ELSE Throws(err)

\* after "await extractAudioFromVideo(videoUrl, audioPath)"
AfterExtract(res) == IF res = "end" THEN GoOn ELSE ExtractCatch(ExtractError(res))

\* the transcripts whisper returns in the pipeline runs
SampleTranscripts == {Rep("W", 3), Transcript(2, 5, 4, 2), Rep("W", 20)}

TranscribeResults ==
  {[ok |-> TRUE, text |-> s] : s \in SampleTranscripts} \cup {[ok |-> FALSE, text |-> <<>>]}

\* after "await transcribeAudio(audioPath)": the two transcript gates
AfterTranscribe(res) ==
  IF ~res.ok THEN Throws(Err({}, "none"))     \* Whisper process exited with code 1
  ELSE IF TranscriptGate(res.text) = "pass" THEN GoOn
  ELSE Resolves(Skip(TranscriptGate(res.text), Null))

BlogifyResults == {"prose", "insufficient", "apiError"}

\* the catch around blogifyTranscription re-throwing every error
AfterBlogifyRethrows(res) ==
  CASE res = "prose" -> Resolves(Success)
    [] res \in {"insufficient", "apiError"} -> Throws(Err({}, "none"))

\* after "await blogifyTranscription(transcription, meaningfulWordCount)"
AfterBlogify(res) ==
  CASE res = "prose" -> Resolves(Success)
    [] res = "insufficient" -> Resolves(Skip("insufficient_content", Null))
    [] res = "apiError" -> Throws(Err({}, "none"))

\* the cache files after a call for item left with outcome o: "resolve" has
\* written the record, the outer catch has unlinked the file on a transient
\* error
Written(file, item, o) ==
  IF o.act = "resolve" THEN [file EXCEPT ![item] = o.rec]
  ELSE IF IsTransient(o.err) THEN [file EXCEPT ![item] = NoRecord]
  ELSE file

\* One call of processVideoAugmentation run on its own, as a function of the
\* cache files and of what each collaborator returns when it is called.  A
\* collaborator the call does not reach returns nothing: one fixed result
\* stands for it.
NotReached ==
  [extract |-> "end", transcribe |-> [ok |-> FALSE, text |-> <<>>], blogify |-> "prose"]

Inputs ==
  {in \in [probe : ProbeOutputs, extract : ExtractResults,
           transcribe : TranscribeResults, blogify : BlogifyResults] :
     /\ AfterProbe(in.probe).act # "next" => in.extract = NotReached.extract
     /\ (AfterProbe(in.probe).act # "next" \/ AfterExtract(in.extract).act # "next")
          => in.transcribe = NotReached.transcribe
     /\ (\/ AfterProbe(in.probe).act # "next"
         \/ AfterExtract(in.extract).act # "next"
         \/ AfterTranscribe(in.transcribe).act # "next")
          => in.blogify = NotReached.blogify}

\* processVideoAugmentation never unlinking the scratch audio file
ScratchAudioKept(o, calls) ==
  IF "ffmpeg" \notin calls THEN {}
  ELSE IF "transcribe" \notin calls THEN {"video", "audio"}
  ELSE {"audio"}

\* the scratch files (TMP_DIR/<cacheKey>.mp4 "video", .wav "audio") a call has
\* created and not unlinked when it leaves with outcome o after the
\* collaborators calls.  The download writes the video; its catch unlinks it.
\* ffmpeg writes the audio; its 'end' handler unlinks the video, its
\* rejections unlink nothing.  After the extraction every path that writes a
\* record unlinks the audio; a throw does not.
Scratch(o, calls) ==
  IF "ffmpeg" \notin calls THEN {}
  ELSE IF "transcribe" \notin calls THEN {"video", "audio"}
  ELSE IF o.act = "resolve" THEN {}
  ELSE {"audio"}

Returned(file, item, o, calls) ==
  [out |-> IF o.act = "resolve" THEN "resolved" ELSE "rejected",
   rec |-> o.rec, err |-> o.err, calls |-> calls, file |-> Written(file, item, o),
   scratch |-> Scratch(o, calls)]

processVideoAugmentation(file, item, in) ==
  IF file[item] # NoRecord
  THEN [out |-> "resolved", rec |-> file[item], err |-> Err({}, "none"),
        calls |-> {}, file |-> file, scratch |-> {}]
  ELSE IF AfterProbe(in.probe).act # "next"
  THEN Returned(file, item, AfterProbe(in.probe), {"probe"})
  ELSE IF AfterExtract(in.extract).act # "next"
  THEN Returned(file, item, AfterExtract(in.extract), {"probe"} \cup ExtractCalls(in.extract))
  ELSE IF AfterTranscribe(in.transcribe).act # "next"
  THEN Returned(file, item, AfterTranscribe(in.transcribe),
                {"probe", "download", "ffmpeg", "transcribe"})
  ELSE Returned(file, item, AfterBlogify(in.blogify),
                {"probe", "download", "ffmpeg", "transcribe", "blogify"})

\* ----------------------------------------------- concurrent executions
FreeSlots(ps) == {i \in DOMAIN ps : ps[i] = Idle}
Lowest(S) == CHOOSE x \in S : \A y \in S : x <= y

\* processVideoAugmentation up to its first await: existsSync(cacheFile)
\* leads to readFile, else to getVideoDuration
NewProc(file, item, job) ==
  [item |-> item, job |-> job,
   pc |-> IF file[item] # NoRecord THEN "readFile" ELSE "probe"]

StartProcess(ps, file, item, job) ==
  [ps EXCEPT ![Lowest(FreeSlots(ps))] = NewProc(file, item, job)]

\* processVideoQueue with the limit test "ACTIVE_VIDEO_PROCESSES > MAX"
processVideoQueueOffByOne(q, file) ==
  IF q.active > MAX_CONCURRENT_VIDEO_PROCESSES \/ q.queue = <<>> THEN q
  ELSE LET job == Head(q.queue)
       IN [queue |-> Tail(q.queue),
           active |-> q.active + 1,
           procs |-> StartProcess(q.procs, file, job.item, job.id),
           jobs |-> [q.jobs EXCEPT ![job.id].st = "running"]]

\* processVideoQueue taking the job pushed last (pop() in place of shift())
processVideoQueuePop(q, file) ==
  IF q.active >= MAX_CONCURRENT_VIDEO_PROCESSES \/ q.queue = <<>> THEN q
  ELSE LET job == q.queue[Len(q.queue)]
       IN [queue |-> SubSeq(q.queue, 1, Len(q.queue) - 1),
           active |-> q.active + 1,
           procs |-> StartProcess(q.procs, file, job.item, job.id),
           jobs |-> [q.jobs EXCEPT ![job.id].st = "running"]]

\* processVideoQueue on q = [queue, active, procs, jobs], up to its await
processVideoQueue(q, file) ==
  IF q.active >= MAX_CONCURRENT_VIDEO_PROCESSES \/ q.queue = <<>> THEN q
  ELSE LET job == Head(q.queue)
       IN [queue |-> Tail(q.queue),
           active |-> q.active + 1,
           procs |-> StartProcess(q.procs, file, job.item, job.id),
           jobs |-> [q.jobs EXCEPT ![job.id].st = "running"]]

UnusedJobs(q) == {j \in DOMAIN q.jobs : q.jobs[j].st = "unused"}

\* queueVideoProcessing on q: push, then processVideoQueue()
queueVideoProcessing(q, file, item) ==
  LET id == Lowest(UnusedJobs(q))
  IN processVideoQueue(
       [q EXCEPT !.queue = Append(@, [item |-> item, id |-> id]),
                 !.jobs = [@ EXCEPT ![id] = [st |-> "queued", item |-> item, got |-> NoItem]]],
       file)

\* the finally block without its processVideoQueue() call
workerFinallyNoPull(q, file) == [q EXCEPT !.active = @ - 1]

\* the finally block of processVideoQueue
workerFinally(q, file) == processVideoQueue([q EXCEPT !.active = @ - 1], file)

\* n more calls of queueVideoProcessing fit the model's bounds
CanQueue(q, n) ==
  /\ Cardinality(UnusedJobs(q)) >= n
  /\ Cardinality(FreeSlots(q.procs)) >= n

Q == [queue |-> VIDEO_PROCESSING_QUEUE, active |-> ACTIVE_VIDEO_PROCESSES,
      procs |-> procs, jobs |-> jobs]

SetQ(q) ==
  /\ VIDEO_PROCESSING_QUEUE' = q.queue
  /\ ACTIVE_VIDEO_PROCESSES' = q.active
  /\ procs' = q.procs
  /\ jobs' = q.jobs

\* The call in slot i goes on to await the next collaborator.
Goto(i, pc) ==
  /\ procs' = [procs EXCEPT ![i].pc = pc]
  /\ UNCHANGED <<augFile, queueVars>>

\* The call in slot i settles, leaving the cache files as file, and its
\* caller's continuation runs.  A direct caller only logs.  The queue worker
\* settles the job's promise (st: "resolved" or "rejected") and runs
\* finally { ACTIVE_VIDEO_PROCESSES--; processVideoQueue() }.
Settle(i, st, file) ==
  /\ augFile' = file
  /\ IF procs[i].job = 0
     THEN /\ procs' = [procs EXCEPT ![i] = Idle]
          /\ UNCHANGED queueVars
     ELSE SetQ(workerFinally(
            [Q EXCEPT !.procs = [procs EXCEPT ![i] = Idle],
                      !.jobs = [jobs EXCEPT ![procs[i].job].st = st,
                                            ![procs[i].job].got = procs[i].item]],
            file))

\* the call in slot i leaves an await with outcome o
Leave(i, o, pc) ==
  IF o.act = "next" THEN Goto(i, pc)
  ELSE Settle(i, IF o.act = "resolve" THEN "resolved" ELSE "rejected",
              Written(augFile, procs[i].item, o))

\* fs.readFile(cacheFile) settles: the record is returned, or the file is
\* gone and the video is reprocessed
ProcReadFile(i) ==
  /\ procs[i].pc = "readFile"
  /\ IF augFile[procs[i].item] # NoRecord THEN Settle(i, "resolved", augFile)
     ELSE Goto(i, "probe")
  /\ UNCHANGED <<albumVars, gateVars, runVars, storeVars, imageVars>>

\* getVideoDuration returns
ProcProbe(i) ==
  /\ procs[i].pc = "probe"
  /\ \E raw \in ProbeOutputs : Leave(i, AfterProbe(raw), "extract")
  /\ UNCHANGED <<albumVars, gateVars, runVars, storeVars, imageVars>>

\* extractAudioFromVideo settles
ProcExtract(i) ==
  /\ procs[i].pc = "extract"
  /\ \E res \in ExtractResults : Leave(i, AfterExtract(res), "transcribe")
  /\ UNCHANGED <<albumVars, gateVars, runVars, storeVars, imageVars>>

\* transcribeAudio settles
ProcTranscribe(i) ==
  /\ procs[i].pc = "transcribe"
  /\ \E res \in TranscribeResults : Leave(i, AfterTranscribe(res), "blogify")
  /\ UNCHANGED <<albumVars, gateVars, runVars, storeVars, imageVars>>

\* blogifyTranscription settles
ProcBlogify(i) ==
  /\ procs[i].pc = "blogify"
  /\ \E res \in BlogifyResults : Leave(i, AfterBlogify(res), "blogify")
  /\ UNCHANGED <<albumVars, gateVars, runVars, storeVars, imageVars>>

ProcStep(i) ==
  \/ ProcReadFile(i)
  \/ ProcProbe(i)
  \/ ProcExtract(i)
  \/ ProcTranscribe(i)
  \/ ProcBlogify(i)

\* A caller invokes queueVideoProcessing(albumToken, photoGuid, videoUrl): the
\* album route on its cache-miss path, for the videos of the album it has
\* fetched, or the augmentation endpoint, for the video asked for.
QueueVideoProcessing(item) ==
  /\ CanQueue(Q, 1)
  /\ SetQ(queueVideoProcessing(Q, augFile, item))
  /\ UNCHANGED <<augFile, albumVars, gateVars, runVars, storeVars, imageVars>>

\* A caller invokes processVideoAugmentation(albumToken, photoGuid, videoUrl)
\* itself: the background reload of a stale album read or
\* refreshTokenInBackground, for the videos of the album it has fetched.
DirectCall(item) ==
  /\ FreeSlots(procs) # {}
  /\ procs' = StartProcess(procs, augFile, item, 0)
  /\ UNCHANGED <<augFile, queueVars, albumVars, gateVars, runVars, storeVars, imageVars>>

\* one call of processVideoAugmentation on its own, from start to return
RunAlone(item) ==
  /\ runs < MaxRuns
  /\ \E in \in Inputs :
       LET ret == processVideoAugmentation(augFile, item, in)
       IN /\ runIn' = [item |-> item, in |-> in]
          /\ runOut' = ret
          /\ augFile' = ret.file
  /\ runs' = runs + 1
  /\ UNCHANGED <<queueVars, procs, albumVars, gateVars, storeVars, imageVars>>


\* ------------------------------------------------------------ album cache
\* getImages(token): the album as the provider returns it, upstream URLs
\* (urls: photos[].derivatives[*].url in order, each "image": an upstream URL
\* without ".mp4", "video": an upstream URL with ".mp4", or "opaque":
\* /api/image/<secureId>.jpg)
Raw(t) == [owner |-> t, urls |-> <<"image">>]

\* the albums the provider may return for token t
AlbumData(t) ==
  {[owner |-> t, urls |-> s] :
     s \in UNION {[1..n -> {"image", "video"}] : n \in 1..MaxUrls}}

\* rewriteImageUrls without its loop over the derivatives
rewriteImageUrlsSkipped(data) == data

\* rewriteImageUrls: a URL that starts with /api/image/ or contains ".mp4"
\* stays as it is, every other URL becomes /api/image/<secureId>.jpg
rewriteImageUrls(data) ==
  [data EXCEPT !.urls = [i \in DOMAIN data.urls |->
                           IF data.urls[i] \in {"opaque", "video"}
                           THEN data.urls[i] ELSE "opaque"]]

\* the "old cache format" test of the album route: some URL starts with
\* /api/image/
hasRewrittenUrls(data) == \E i \in DOMAIN data.urls : data.urls[i] = "opaque"

\* sanitizeToken: token.replace(/[^a-zA-Z0-9_-]/g, '_'), on the tokens above
sanitizeToken(t) == IF t = "C.d" THEN "C_d" ELSE t

\* the names a file of cache/albums may have, without the extension
CacheFiles == {sanitizeToken(t) : t \in AllTokens}

\* the video items of an album: isVideo(photo) and getVideoUrl(photo)
Videos(t) == {item \in Items : item[1] = t}

\* isStale with the comparison turned round
isStaleFlipped(rec) == now - rec.timestamp < CACHE_TTL

\* getCachedData's isStale
isStale(rec) == now - rec.timestamp > CACHE_TTL

\* getCachedData(token): null, or the stored data (stale or not)
getCachedData(t) ==
  LET cached == albumFile[sanitizeToken(t)] IN
  IF cached = NoRecord THEN NoOutput
  ELSE [data |-> cached.data, isStale |-> isStale(cached),
        timestamp |-> cached.timestamp]

\* the tokens recentlyAccessedTokens holds
TrackedTokens(m) == {m[i].token : i \in DOMAIN m}

\* trackTokenForRefresh that removes the newest entries beyond
\* MAX_TRACKED_TOKENS
trackTokenForRefreshNewest(m, t) ==
  LET m1 == IF t \in TrackedTokens(m)
            THEN [i \in DOMAIN m |->
                    IF m[i].token = t THEN [token |-> t, lastAccessed |-> now] ELSE m[i]]
            ELSE Append(m, [token |-> t, lastAccessed |-> now])
  IN IF Len(m1) > MAX_TRACKED_TOKENS THEN SubSeq(m1, 1, MAX_TRACKED_TOKENS) ELSE m1

\* trackTokenForRefresh: recentlyAccessedTokens.set(token, {lastAccessed:
\* Date.now()}); beyond MAX_TRACKED_TOKENS the entries are sorted by
\* lastAccessed (a stable sort of the entries in insertion order) and the
\* first entries.length - MAX_TRACKED_TOKENS of them deleted
trackTokenForRefresh(m, t) ==
  LET m1 == IF t \in TrackedTokens(m)
            THEN [i \in DOMAIN m |->
                    IF m[i].token = t THEN [token |-> t, lastAccessed |-> now] ELSE m[i]]
            ELSE Append(m, [token |-> t, lastAccessed |-> now])
      n == Len(m1)
      sortedBefore(i) ==
        Cardinality({j \in 1..n : \/ m1[j].lastAccessed < m1[i].lastAccessed
                                  \/ /\ m1[j].lastAccessed = m1[i].lastAccessed
                                     /\ j < i})
      toRemove == {m1[i].token : i \in {j \in 1..n : sortedBefore(j) < n - MAX_TRACKED_TOKENS}}
      kept(e) == e.token \notin toRemove
  IN IF n > MAX_TRACKED_TOKENS THEN SelectSeq(m1, kept) ELSE m1

FreeTasks == {k \in 1..MaxTasks : tasks[k] = Idle}

\* kind: "miss" the route on its cache-miss path, "stale" / "legacy" the
\* background reload of a stale read, "sched" refreshTokenInBackground.
\* found: what the read found in the cache ("absent": no record or a forced
\* refresh, "stale": a stale record and the flag clear, "staleReloading": a
\* stale record and the flag set).
NewTask(kind, t, pc, found) ==
  [kind |-> kind, token |-> t, pc |-> pc, found |-> found, r |-> FALSE]

Spawn(task) == tasks' = [tasks EXCEPT ![Lowest(FreeTasks)] = task]

\* GET /api/album/:token, from getCachedData's result to the next await
\* (force: ?refresh=true)
AlbumRead(t, force) ==
  LET cached == IF force THEN NoRecord ELSE albumFile[sanitizeToken(t)]
      flag == reloadingState[t]
  IN /\ IF cached # NoRecord /\ hasRewrittenUrls(cached.data)
        THEN IF isStale(cached) /\ ~flag
             THEN \* old cache format, stale: answer as-is, reload in background
                  /\ FreeTasks # {}
                  /\ Spawn(NewTask("legacy", t, "fetch", "stale"))
                  /\ UNCHANGED <<reloadingState, recentlyAccessedTokens>>
             ELSE \* old cache format: answer as-is
                  /\ recentlyAccessedTokens' = trackTokenForRefresh(recentlyAccessedTokens, t)
                  /\ UNCHANGED <<reloadingState, tasks>>
        ELSE IF cached # NoRecord /\ isStale(cached) /\ ~flag
             THEN \* stale: setReloading(true), answer the stale data, reload in background
                  /\ FreeTasks # {}
                  /\ reloadingState' = [reloadingState EXCEPT ![t] = TRUE]
                  /\ recentlyAccessedTokens' = trackTokenForRefresh(recentlyAccessedTokens, t)
                  /\ Spawn(NewTask("stale", t, "fetch", "stale"))
        ELSE IF cached # NoRecord /\ ~isStale(cached)
             THEN \* fresh: answer
                  /\ recentlyAccessedTokens' = trackTokenForRefresh(recentlyAccessedTokens, t)
                  /\ UNCHANGED <<reloadingState, tasks>>
        ELSE \* "Cache miss": await getImages
             /\ FreeTasks # {}
             /\ Spawn(NewTask("miss", t, "fetch", IF cached = NoRecord THEN "absent" ELSE "staleReloading"))
             /\ UNCHANGED <<reloadingState, recentlyAccessedTokens>>
     /\ UNCHANGED <<now, albumFile, refreshJob, pipeVars, gateVars, runVars, storeVars, imageVars>>

\* the body GET /api/album/:token answers with, as a function of what the
\* read meets. in.cached: the result of getCachedData (NoRecord: null),
\* in.force: ?refresh=true, in.flag: reloadingState.get(cacheKey),
\* in.fetched: what getImages resolves with (NoRecord: it rejects)
albumAnswer(in) ==
  LET cached == IF in.force THEN NoRecord ELSE in.cached
      path == IF cached # NoRecord /\ hasRewrittenUrls(cached.data) THEN "legacy"
              ELSE IF cached # NoRecord /\ cached.isStale /\ ~in.flag THEN "stale"
              ELSE IF cached # NoRecord /\ ~cached.isStale THEN "fresh"
              ELSE "miss"
  IN CASE path = "legacy" ->
            [path |-> path, status |-> 200, data |-> cached.data]
       [] path \in {"stale", "fresh"} ->
            [path |-> path, status |-> 200, data |-> rewriteImageUrls(cached.data)]
       [] path = "miss" ->
            IF in.fetched # NoRecord
            THEN [path |-> path, status |-> 200, data |-> rewriteImageUrls(in.fetched)]
            ELSE [path |-> path, status |-> 500, data |-> NoRecord]

\* one read of the album route on its own
ApplyAnswer ==
  /\ runIn # NoInput /\ runOut = NoOutput
  /\ runOut' = albumAnswer(runIn)
  /\ UNCHANGED <<albumVars, runIn, runs, pipeVars, gateVars, storeVars, imageVars>>

\* processVideoAugmentation(...) called for every video of the album
RECURSIVE StartAll(_, _, _)
StartAll(ps, file, items) ==
  IF items = {} THEN ps
  ELSE LET it == CHOOSE x \in items : TRUE
       IN StartAll(StartProcess(ps, file, it, 0), file, items \ {it})

\* queueVideoProcessing(...) called for every video of the album
RECURSIVE QueueAll(_, _, _)
QueueAll(q, file, items) ==
  IF items = {} THEN q
  ELSE LET it == CHOOSE x \in items : TRUE
       IN QueueAll(queueVideoProcessing(q, file, it), file, items \ {it})

\* a background refresh whose getImages rejects and whose catch stores a
\* failure marker in place of the album record
TaskFetchFailMarked(k) ==
  LET T == tasks[k] IN
  /\ T # Idle /\ T.pc = "fetch"
  /\ tasks' = [tasks EXCEPT ![k] = Idle]
  /\ albumFile' = IF T.kind = "miss" THEN albumFile
                  ELSE [albumFile EXCEPT ![sanitizeToken(T.token)] = [data |-> [owner |-> T.token, urls |-> <<>>],
                                                                      timestamp |-> now]]
  /\ UNCHANGED <<now, reloadingState, recentlyAccessedTokens, refreshJob, pipeVars, gateVars, runVars, storeVars, imageVars>>

\* getImages(token) of a task rejects.  runOut keeps note that the fetch of
\* some background refresh has failed while a record of its token was stored
TaskFetchFail(k) ==
  LET T == tasks[k] IN
  /\ T # Idle /\ T.pc = "fetch"
  /\ tasks' = [tasks EXCEPT ![k] = Idle]
  /\ IF T.kind \in {"stale", "legacy"}
     THEN \* catch of the background reload: setReloading(cacheKey, false)
          reloadingState' = [reloadingState EXCEPT ![T.token] = FALSE]
     ELSE \* the route answers 500 / refreshTokenInBackground returns false
          UNCHANGED reloadingState
  /\ runOut' = IF T.kind # "miss" /\ albumFile[sanitizeToken(T.token)] # NoRecord
               THEN [out |-> "refreshFailed"] ELSE runOut
  /\ UNCHANGED <<now, albumFile, recentlyAccessedTokens, refreshJob, pipeVars, gateVars, runIn, runs, storeVars, imageVars>>

\* getImages(token) of a task resolves
TaskFetchOk(k) ==
  LET T == tasks[k] IN
  /\ T # Idle /\ T.pc = "fetch"
  /\ CASE T.kind = "miss" ->
            \* setCachedData(cacheKey, data, false) starts
            /\ tasks' = [tasks EXCEPT ![k].pc = "setCachedData"]
            /\ UNCHANGED pipeVars
       [] T.kind \in {"stale", "legacy", "sched"} ->
            \* the videos are processed directly; setCachedData starts
            /\ Cardinality(FreeSlots(procs)) >= Cardinality(Videos(T.token))
            /\ procs' = StartAll(procs, augFile, Videos(T.token))
            /\ tasks' = [tasks EXCEPT ![k].pc = "setCachedData"]
            /\ UNCHANGED <<augFile, queueVars>>
  /\ UNCHANGED <<now, albumFile, reloadingState, recentlyAccessedTokens, refreshJob, gateVars, runVars, storeVars, imageVars>>

\* what a task stores: the cache-miss path the raw album, the reloads and the
\* scheduled refresh the rewritten one
StoredData(T) == IF T.kind = "miss" THEN Raw(T.token) ELSE rewriteImageUrls(Raw(T.token))

\* setCachedData(token, data, isReloading) after its getCachedData:
\* cacheData.reloading
cacheDataReloading(t, isReloading) ==
  isReloading \/ (albumFile[sanitizeToken(t)] # NoRecord /\ reloadingState[t])

\* setCachedData up to its writeFile: getCachedData, then the record is built
\* (timestamp: Date.now(), reloading) and written
TaskSetGet(k) ==
  LET T == tasks[k] IN
  /\ T # Idle /\ T.pc = "setCachedData"
  /\ albumFile' = [albumFile EXCEPT ![sanitizeToken(T.token)] =
                                       [data |-> StoredData(T), timestamp |-> now]]
  /\ tasks' = [tasks EXCEPT ![k].pc = "writeFile", ![k].r = cacheDataReloading(T.token, FALSE)]
  /\ UNCHANGED <<now, reloadingState, recentlyAccessedTokens, refreshJob, pipeVars, gateVars, runVars, storeVars, imageVars>>

\* setCachedData after its writeFile: reloadingState.set(token, cacheData.reloading);
\* the cache-miss path then queues the videos, tracks the token and answers
TaskSetWrite(k) ==
  LET T == tasks[k] IN
  /\ T # Idle /\ T.pc = "writeFile"
  /\ reloadingState' = [reloadingState EXCEPT ![T.token] = T.r]
  /\ tasks' = [tasks EXCEPT ![k] = Idle]
  /\ IF T.kind = "miss"
     THEN /\ CanQueue(Q, Cardinality(Videos(T.token)))
          /\ SetQ(QueueAll(Q, augFile, Videos(T.token)))
          /\ recentlyAccessedTokens' = trackTokenForRefresh(recentlyAccessedTokens, T.token)
          /\ UNCHANGED augFile
     ELSE UNCHANGED <<recentlyAccessedTokens, pipeVars>>
  /\ UNCHANGED <<now, albumFile, refreshJob, gateVars, runVars, storeVars, imageVars>>

\* setCachedData(token, data, isReloading) run from call to return
PutAlone(t, data, isReloading) ==
  /\ albumFile' = [albumFile EXCEPT ![sanitizeToken(t)] = [data |-> data, timestamp |-> now]]
  /\ reloadingState' = [reloadingState EXCEPT ![t] = cacheDataReloading(t, isReloading)]
  /\ runIn' = [token |-> t, data |-> data, at |-> now]
  /\ runOut' = NoOutput
  /\ UNCHANGED <<now, recentlyAccessedTokens, refreshJob, tasks, runs, pipeVars, gateVars, storeVars, imageVars>>

\* getCachedData(token) called and its result kept
GetAlone(t) ==
  /\ runOut' = [token |-> t, at |-> now, got |-> getCachedData(t)]
  /\ UNCHANGED <<albumVars, runIn, runs, pipeVars, gateVars, storeVars, imageVars>>

TaskStep(k) ==
  \/ TaskFetchFail(k)
  \/ TaskFetchOk(k)
  \/ TaskSetGet(k)
  \/ TaskSetWrite(k)

\* the tokens the scheduled job refreshes, in the order of the Map
tokensToRefresh ==
  LET recent(e) == now - e.lastAccessed < TOKEN_ACCESS_TTL
      live == SelectSeq(recentlyAccessedTokens, recent)
  IN [i \in DOMAIN live |-> live[i].token]

\* batch.map(refreshTokenInBackground): one task per token of the batch
SpawnBatch(batch) ==
  LET Rank(k) == Cardinality({j \in FreeTasks : j < k}) + 1
  IN /\ Cardinality(FreeTasks) >= Len(batch)
     /\ tasks' = [k \in 1..MaxTasks |->
                    IF k \in FreeTasks /\ Rank(k) <= Len(batch)
                    THEN NewTask("sched", batch[Rank(k)], "fetch", "-")
                    ELSE tasks[k]]

\* the slice without its upper end: every token left goes into one batch
BatchAll(list) == list

\* tokensToRefresh.slice(i, i + BATCH_SIZE) and what follows it
Batch(list) == SubSeq(list, 1, IF Len(list) < BATCH_SIZE THEN Len(list) ELSE BATCH_SIZE)
AfterBatch(list) == SubSeq(list, Len(Batch(list)) + 1, Len(list))

\* the refreshTokenInBackground calls of the running batch that have not settled
BatchTasks == {k \in 1..MaxTasks : tasks[k] # Idle /\ tasks[k].kind = "sched"}

\* the scheduled job starts: the tokens not accessed for TOKEN_ACCESS_TTL are
\* deleted, the others collected, and the first batch is started
\* (started: the tokens refreshTokenInBackground was called for, removed: the
\* tokens deleted, both kept for the run)
ScheduledRefresh ==
  /\ refreshJob = Idle
  /\ recentlyAccessedTokens # <<>>
  /\ LET recent(e) == now - e.lastAccessed < TOKEN_ACCESS_TTL
         list == tokensToRefresh
     IN /\ recentlyAccessedTokens' = SelectSeq(recentlyAccessedTokens, recent)
        /\ IF list = <<>>
           THEN UNCHANGED <<tasks, refreshJob>>
           ELSE /\ SpawnBatch(Batch(list))
                /\ refreshJob' = [pc |-> "batch", list |-> list, rest |-> AfterBatch(list),
                                  started |-> Batch(list),
                                  removed |-> TrackedTokens(recentlyAccessedTokens)
                                                \ TrackedTokens(recentlyAccessedTokens')]
  /\ UNCHANGED <<now, albumFile, reloadingState, pipeVars, gateVars, runVars, storeVars, imageVars>>

\* await Promise.all(...) of the running batch settles: after the delay the
\* next batch is started, or the run ends
NextBatch ==
  /\ refreshJob # Idle
  /\ BatchTasks = {}
  /\ IF refreshJob.rest = <<>>
     THEN /\ refreshJob' = Idle
          /\ UNCHANGED tasks
     ELSE /\ SpawnBatch(Batch(refreshJob.rest))
          /\ refreshJob' = [refreshJob EXCEPT !.rest = AfterBatch(@),
                                              !.started = @ \o Batch(refreshJob.rest)]
  /\ UNCHANGED <<now, albumFile, reloadingState, recentlyAccessedTokens, pipeVars, gateVars, runVars, storeVars, imageVars>>

Tick ==
  /\ now < MaxTime
  /\ now' = now + 1
  /\ UNCHANGED <<albumFile, reloadingState, recentlyAccessedTokens, refreshJob, tasks, pipeVars, gateVars, runVars, storeVars, imageVars>>

\* ------------------------------------------------- secure reference mapping
Urls == {"p", "q", "r"}

\* the first 16 hex digits of the SHA-256 of the URL: "p" and "q" share theirs
urlHash(u) == IF u = "r" THEN "h2" ELSE "h1"

Hashes == {urlHash(u) : u \in Urls}

NoId == 0
SecureIds == 1..MaxIds
NoPair == <<NoId, NoId>>

\* generateSecureId(): 16 random bytes, an id no earlier call produced
generateSecureId == minted + 1

\* the lookup record of u names id and the forward record of id is on disk
Stands(lk, mp, u, id) ==
  /\ lk[urlHash(u)] # NoRecord
  /\ lk[urlHash(u)].url = u
  /\ lk[urlHash(u)].secureId = id
  /\ mp[id] # NoRecord

\* storeImageUrl's test of the lookup record it read, without the comparison
\* of the stored URL
lookupHitAnyUrl(lk, mp, u) ==
  /\ lk # NoRecord
  /\ lk.secureId # NoId
  /\ mp[lk.secureId] # NoRecord

\* the same test with existsSync(mappingFile) inverted
lookupHitInverted(lk, mp, u) ==
  /\ lk # NoRecord
  /\ lk.url = u /\ lk.secureId # NoId
  /\ mp[lk.secureId] = NoRecord

\* storeImageUrl's test of the lookup record it read: the URL matches and the
\* forward record still exists
lookupHit(lk, mp, u) ==
  /\ lk # NoRecord
  /\ lk.url = u /\ lk.secureId # NoId
  /\ mp[lk.secureId] # NoRecord

\* fs.writeFile(mappingFile, {url, timestamp: Date.now()}); ok: it succeeds
writeMapping(mp, u, id, ok) ==
  IF ok THEN [mp EXCEPT ![id] = [url |-> u, timestamp |-> now]] ELSE mp

\* the lookup record written only when there is none yet
writeLookupOnce(lk, u, id, ok) ==
  IF ok /\ lk[urlHash(u)] = NoRecord
  THEN [lk EXCEPT ![urlHash(u)] = [url |-> u, secureId |-> id, timestamp |-> now]]
  ELSE lk

\* fs.writeFile(lookupFile, {url, secureId, timestamp: Date.now()})
writeLookup(lk, u, id, ok) ==
  IF ok THEN [lk EXCEPT ![urlHash(u)] = [url |-> u, secureId |-> id, timestamp |-> now]]
  ELSE lk

\* storeImageUrl(u) from its call to the settlement of its first write: the
\* lookup record is read and tested; on a hit the call returns, otherwise an
\* id is generated and the forward record written (ok: the write succeeds)
StoreCall(u, ok) ==
  LET lk == lookupFile[urlHash(u)] IN
  /\ IF lookupHit(lk, mappingFile, u)
     THEN /\ returned' = [returned EXCEPT ![u] = @ \cup {[id |-> lk.secureId, wrote |-> "hit"]}]
          /\ UNCHANGED <<mappingFile, stores, minted>>
     ELSE /\ FreeSlots(stores) # {}
          /\ minted < MaxIds
          /\ minted' = generateSecureId
          /\ mappingFile' = writeMapping(mappingFile, u, generateSecureId, ok)
          /\ stores' = [stores EXCEPT ![Lowest(FreeSlots(stores))] =
                          [pc |-> "writeMapping", url |-> u, secureId |-> generateSecureId,
                           ok |-> ok]]
          /\ UNCHANGED returned
  /\ UNCHANGED <<lookupFile, lastId, lastPair>>
  /\ UNCHANGED <<imageVars, albumVars, pipeVars, gateVars, runVars>>

\* the write of the forward record settles: on failure the catch logs and the
\* call returns its id; otherwise the lookup record is written
StoreMappingSettled(i, ok) ==
  LET S == stores[i] IN
  /\ S # Idle /\ S.pc = "writeMapping"
  /\ IF ~S.ok
     THEN /\ stores' = [stores EXCEPT ![i] = Idle]
          /\ returned' = [returned EXCEPT ![S.url] = @ \cup {[id |-> S.secureId, wrote |-> "none"]}]
          /\ UNCHANGED lookupFile
     ELSE /\ stores' = [stores EXCEPT ![i].pc = "writeLookup", ![i].ok = ok]
          /\ lookupFile' = writeLookup(lookupFile, S.url, S.secureId, ok)
          /\ UNCHANGED returned
  /\ UNCHANGED <<mappingFile, minted, lastId, lastPair>>
  /\ UNCHANGED <<imageVars, albumVars, pipeVars, gateVars, runVars>>

\* the write of the lookup record settles: the call returns its id
StoreLookupSettled(i) ==
  LET S == stores[i] IN
  /\ S # Idle /\ S.pc = "writeLookup"
  /\ stores' = [stores EXCEPT ![i] = Idle]
  /\ returned' = [returned EXCEPT ![S.url] = @ \cup {[id |-> S.secureId, wrote |-> IF S.ok THEN "both" ELSE "mappingOnly"]}]
  /\ UNCHANGED <<lookupFile, mappingFile, minted, lastId, lastPair>>
  /\ UNCHANGED <<imageVars, albumVars, pipeVars, gateVars, runVars>>

\* storeImageUrl(u) run from call to return with no other call in between
\* (ok1, ok2: its two writes succeed)
StoreAlone(u, ok1, ok2) ==
  LET lk == lookupFile[urlHash(u)]
      hit == lookupHit(lk, mappingFile, u)
      id == IF hit THEN lk.secureId ELSE generateSecureId
      mp1 == IF hit THEN mappingFile ELSE writeMapping(mappingFile, u, id, ok1)
      lk1 == IF hit \/ ~ok1 THEN lookupFile ELSE writeLookup(lookupFile, u, id, ok2)
  IN /\ hit \/ minted < MaxIds
     /\ minted' = IF hit THEN minted ELSE id
     /\ mappingFile' = mp1
     /\ lookupFile' = lk1
     /\ lastPair' = IF lastId[u] # NoId
                    THEN [lastPair EXCEPT ![u] = <<lastId[u], id>>]
                    ELSE lastPair
     /\ lastId' = [v \in Urls |->
                     IF v = u THEN IF Stands(lk1, mp1, u, id) THEN id ELSE NoId
                     ELSE IF lk1 # lookupFile /\ urlHash(v) = urlHash(u) THEN NoId
                     ELSE lastId[v]]
     /\ UNCHANGED <<stores, returned>>
     /\ UNCHANGED <<imageVars, albumVars, pipeVars, gateVars, runVars>>

\* the hourly pass over cache/mappings: every .json record older than
\* IMAGE_URL_MAP_TTL is unlinked, and with it the image of the same base name
Cleanup ==
  LET expiredMappings ==
        {id \in SecureIds : /\ mappingFile[id] # NoRecord
                            /\ now - mappingFile[id].timestamp > IMAGE_URL_MAP_TTL}
      expiredLookups ==
        {h \in Hashes : /\ lookupFile[h] # NoRecord
                        /\ now - lookupFile[h].timestamp > IMAGE_URL_MAP_TTL}
  IN
  /\ mappingFile' = [id \in SecureIds |->
                       IF id \in expiredMappings THEN NoRecord ELSE mappingFile[id]]
  /\ lookupFile' = [h \in Hashes |->
                      IF h \in expiredLookups THEN NoRecord ELSE lookupFile[h]]
  /\ imageFile' = [id \in SecureIds |->
                     IF id \in expiredMappings THEN NoRecord ELSE imageFile[id]]
  /\ lastId' = [u \in Urls |->
                  IF lastId[u] \in expiredMappings \/ urlHash(u) \in expiredLookups
                  THEN NoId ELSE lastId[u]]
  /\ UNCHANGED <<stores, minted, lastPair, returned, req>>
  /\ UNCHANGED <<albumVars, pipeVars, gateVars, runVars>>

\* ---------------------------------------------------------- image endpoint
\* what the provider and sharp do during one stripExifLocation(url):
\* fetch: the first fetch ("ok", "httpError": response.ok false, "networkError":
\* it rejects); sharp: metadata / toBuffer ("ok", "fails"); again: the fetch of
\* the fallback ("ok": it resolves, whatever the status; "networkError")
StripEnvs ==
  {[fetch |-> "ok", sharp |-> "ok", again |-> "-"]}
  \cup [fetch : {"ok"}, sharp : {"fails"}, again : {"ok", "networkError"}]
  \cup [fetch : {"httpError", "networkError"}, sharp : {"-"}, again : {"ok", "networkError"}]

\* stripExifLocation(imageUrl): the bytes it returns ("transformed": the output
\* of sharp, "upstream": the body of the fallback's fetch as it came), or
\* "throws"
stripExifLocation(e) ==
  IF e.fetch = "ok" /\ e.sharp = "ok" THEN "transformed"
  ELSE IF e.again = "ok" THEN "upstream" ELSE "throws"

\* getImageUrl without its test of the age of the mapping
mappingExpiredNever(id) == mappingFile[id] = NoRecord

\* the same test with the age compared one unit too late
mappingExpiredLate(id) ==
  mappingFile[id] = NoRecord \/ now - mappingFile[id].timestamp > IMAGE_URL_MAP_TTL + 1

\* the mapping getImageUrl(secureId) finds: none when the file is absent or
\* older than IMAGE_URL_MAP_TTL
mappingExpired(id) ==
  mappingFile[id] = NoRecord \/ now - mappingFile[id].timestamp > IMAGE_URL_MAP_TTL

\* the ETag of a derivative: "<secureId>-<mtimeMs>"
Etag(id, file) == <<id, file.mtime>>
NoEtag == <<NoId, 0>>

\* the handler answers: the request as it went and the answer are kept until
\* the next request (file: the derivative at that moment)
Respond(R, status, body) ==
  req' = [pc |-> "answered", id |-> R.id, match |-> R.match, had |-> R.had,
          exists |-> R.exists, orphan |-> R.orphan, upstream |-> R.upstream,
          failed |-> R.failed, status |-> status, body |-> body,
          file |-> imageFile[R.id]]

\* GET /api/image/:secureId.jpg up to the settlement of fs.stat(imageFile): a
\* fresh derivative is answered with 304 when If-None-Match equals its ETag
\* and is read otherwise; else the mapping is looked up.
\* had: cachedStats, exists: cachedImageExists, match: If-None-Match equals
\* the ETag of cachedStats, orphan: the mapping is absent or expired
ImageRequest(id, inm) ==
  LET file == imageFile[id]
      fresh == file # NoRecord /\ now - file.mtime < CACHE_TTL
      R == [pc |-> IF fresh THEN "readFile" ELSE "getImageUrl", id |-> id,
            match |-> (file # NoRecord /\ inm = Etag(id, file)),
            had |-> file, exists |-> file # NoRecord, via |-> IF fresh THEN "fresh" ELSE "-",
            orphan |-> (mappingFile[id] = NoRecord
                        \/ now - mappingFile[id].timestamp > IMAGE_URL_MAP_TTL),
            upstream |-> FALSE, failed |-> FALSE, buf |-> "-"]
  IN /\ req.pc \in {"idle", "answered"}
     /\ id <= minted
     /\ IF fresh /\ inm = Etag(id, file)
        THEN Respond(R, 304, "-")
        ELSE req' = R
     /\ UNCHANGED <<imageFile, storeVars, albumVars, pipeVars, gateVars, runVars>>

\* getImageUrl(secureId) settles: an expired mapping is unlinked; without a
\* mapping the derivative found before is read, or the answer is 404
ImgGetImageUrl ==
  /\ req.pc = "getImageUrl"
  /\ mappingFile' = IF mappingFile[req.id] # NoRecord /\ mappingExpired(req.id)
                    THEN [mappingFile EXCEPT ![req.id] = NoRecord]
                    ELSE mappingFile
  /\ lastId' = [u \in Urls |-> IF lastId[u] = req.id /\ mappingExpired(req.id)
                               THEN NoId ELSE lastId[u]]
  /\ IF ~mappingExpired(req.id)
     THEN req' = [req EXCEPT !.pc = "strip", !.upstream = TRUE]
     ELSE IF req.exists
          THEN req' = [req EXCEPT !.pc = "readFile", !.via = "orphan"]
          ELSE Respond(req, 404, "-")
  /\ UNCHANGED <<imageFile, lookupFile, stores, minted, lastPair, returned>>
  /\ UNCHANGED <<albumVars, pipeVars, gateVars, runVars>>

\* fs.readFile(imageFile) settles: the derivative is sent; when it is gone,
\* the fresh path goes on to the mapping, the orphan path answers 404 and the
\* fallback path rethrows (500)
ImgReadFile ==
  /\ req.pc = "readFile"
  /\ IF imageFile[req.id] # NoRecord
     THEN Respond(req, 200, imageFile[req.id].bytes)
     ELSE CASE req.via = "fresh" ->
                 req' = [req EXCEPT !.pc = "getImageUrl", !.exists = FALSE, !.via = "-"]
            [] req.via = "orphan" -> Respond(req, 404, "-")
            [] req.via = "fallback" -> Respond(req, 500, "-")
  /\ UNCHANGED <<imageFile, storeVars, albumVars, pipeVars, gateVars, runVars>>

\* stripExifLocation(originalUrl) settles: its bytes are written to the
\* derivative; when it throws, the derivative found before is read, or the
\* answer is 500
ImgStrip(e) ==
  LET buf == stripExifLocation(e) IN
  /\ req.pc = "strip"
  /\ IF buf # "throws"
     THEN /\ imageFile' = [imageFile EXCEPT ![req.id] = [bytes |-> buf, mtime |-> now]]
          /\ req' = [req EXCEPT !.pc = "stat", !.buf = buf, !.failed = (buf # "transformed")]
     ELSE /\ UNCHANGED imageFile
          /\ IF req.exists
             THEN req' = [req EXCEPT !.pc = "readFile", !.via = "fallback", !.failed = TRUE]
             ELSE Respond([req EXCEPT !.failed = TRUE], 500, "-")
  /\ UNCHANGED <<storeVars, albumVars, pipeVars, gateVars, runVars>>

\* fs.writeFile and fs.stat(imageFile) settle: the bytes are sent; when the
\* file is gone the outer catch answers 500
ImgStat ==
  /\ req.pc = "stat"
  /\ IF imageFile[req.id] # NoRecord
     THEN Respond(req, 200, req.buf)
     ELSE Respond(req, 500, "-")
  /\ UNCHANGED <<imageFile, storeVars, albumVars, pipeVars, gateVars, runVars>>

\* ------------------------------------------------------- specifications
RestInit ==
  /\ lookupFile = [h \in Hashes |-> NoRecord]
  /\ mappingFile = [id \in SecureIds |-> NoRecord]
  /\ imageFile = [id \in SecureIds |-> NoRecord]
  /\ stores = [i \in 1..MaxStores |-> Idle]
  /\ minted = 0
  /\ lastId = [u \in Urls |-> NoId]
  /\ lastPair = [u \in Urls |-> NoPair]
  /\ returned = [u \in Urls |-> {}]
  /\ req = Idle

Init ==
  /\ now = 0
  /\ albumFile = [f \in CacheFiles |-> NoRecord]
  /\ reloadingState = [t \in AllTokens |-> FALSE]
  /\ recentlyAccessedTokens = <<>>
  /\ refreshJob = Idle
  /\ tasks = [k \in 1..MaxTasks |-> Idle]
  /\ augFile = [it \in Items |-> NoRecord]
  /\ procs = [i \in 1..MaxProcs |-> Idle]
  /\ VIDEO_PROCESSING_QUEUE = <<>>
  /\ ACTIVE_VIDEO_PROCESSES = 0
  /\ jobs = [j \in 1..MaxJobs |-> [st |-> "unused", item |-> NoItem, got |-> NoItem]]
  /\ transcript = <<>>
  /\ gate = "none"
  /\ runIn = NoInput
  /\ runOut = NoOutput
  /\ runs = 0
  /\ RestInit

Next ==
  \/ Tick
  \/ \E t \in Tokens, force \in BOOLEAN : AlbumRead(t, force)
  \/ \E k \in 1..MaxTasks : TaskStep(k)
  \/ ScheduledRefresh
  \/ NextBatch

Spec == Init /\ [][Next]_vars

\* the clock over a span in which a record can become stale twice
LateTick ==
  /\ now < MaxLateTime
  /\ now' = now + 1
  /\ UNCHANGED <<albumFile, reloadingState, recentlyAccessedTokens, refreshJob, tasks, pipeVars, gateVars, runVars, storeVars, imageVars>>

\* the album route, its reloads and the scheduled refresh for one album
\* (token "A"), over the longer span
SoloSpec ==
  Init /\ [][\/ LateTick
             \/ \E force \in BOOLEAN : AlbumRead("A", force)
             \/ \E k \in 1..MaxTasks : TaskStep(k)
             \/ ScheduledRefresh
             \/ NextBatch]_vars

\* the pipeline on its own: any caller may queue a video or process it directly
PipeNext ==
  \/ \E item \in Items : QueueVideoProcessing(item)
  \/ \E item \in Items : DirectCall(item)
  \/ \E i \in 1..MaxProcs : ProcStep(i)

PipeSpec == Init /\ [][PipeNext]_vars

\* the queue on its own: every call of the pipeline goes through it
QueueNext ==
  \/ \E item \in Items : QueueVideoProcessing(item)
  \/ \E i \in 1..MaxProcs : ProcStep(i)

QueueSpec == Init /\ [][QueueNext]_vars

\* every collaborator call of a running execution settles
FairQueueSpec == QueueSpec /\ \A i \in 1..MaxProcs : WF_vars(ProcStep(i))

\* the transcript gate of processVideoAugmentation run on a transcript
ApplyGate ==
  /\ gate = "none"
  /\ gate' = TranscriptGate(transcript)
  /\ UNCHANGED <<transcript, albumVars, pipeVars, runVars, storeVars, imageVars>>

GateInit ==
  /\ transcript \in GateInputs
  /\ gate = "none"
  /\ now = 0
  /\ albumFile = [f \in CacheFiles |-> NoRecord]
  /\ reloadingState = [t \in AllTokens |-> FALSE]
  /\ recentlyAccessedTokens = <<>>
  /\ refreshJob = Idle
  /\ tasks = [k \in 1..MaxTasks |-> Idle]
  /\ augFile = [it \in Items |-> NoRecord]
  /\ procs = [i \in 1..MaxProcs |-> Idle]
  /\ VIDEO_PROCESSING_QUEUE = <<>>
  /\ ACTIVE_VIDEO_PROCESSES = 0
  /\ jobs = [j \in 1..MaxJobs |-> [st |-> "unused", item |-> NoItem, got |-> NoItem]]
  /\ runIn = NoInput
  /\ runOut = NoOutput
  /\ runs = 0
  /\ RestInit

GateSpec == GateInit /\ [][ApplyGate]_vars

\* one call after the other, each run on its own
RunNext == \E item \in Items : RunAlone(item)

RunSpec == Init /\ [][RunNext]_vars

\* the album cache on its own: records written and read back as time passes
CacheSpec ==
  Init /\ [][\/ Tick
             \/ \E t \in Tokens, rewritten, r \in BOOLEAN :
                  PutAlone(t, IF rewritten THEN rewriteImageUrls(Raw(t)) ELSE Raw(t), r)
             \/ \E t \in Tokens : GetAlone(t)]_vars

\* the secure reference mapping: calls of storeImageUrl one after the other,
\* the passing of time and the hourly cleanup
StoreSpec ==
  Init /\ [][\/ Tick
             \/ \E u \in Urls, ok1, ok2 \in BOOLEAN : StoreAlone(u, ok1, ok2)
             \/ Cleanup]_vars

\* what a read of album "A" may meet: no record, or a record the cache-miss
\* path wrote (the album as fetched) or a reload wrote (the album rewritten)
AnswerInputs ==
  [cached : {NoRecord} \cup
            [data : AlbumData("A") \cup {rewriteImageUrls(d) : d \in AlbumData("A")},
             isStale : BOOLEAN],
   force : BOOLEAN, flag : BOOLEAN,
   fetched : {NoRecord} \cup AlbumData("A")]

AnswerInit ==
  /\ runIn \in AnswerInputs
  /\ runOut = NoOutput
  /\ runs = 0
  /\ now = 0
  /\ albumFile = [f \in CacheFiles |-> NoRecord]
  /\ reloadingState = [t \in AllTokens |-> FALSE]
  /\ recentlyAccessedTokens = <<>>
  /\ refreshJob = Idle
  /\ tasks = [k \in 1..MaxTasks |-> Idle]
  /\ augFile = [it \in Items |-> NoRecord]
  /\ procs = [i \in 1..MaxProcs |-> Idle]
  /\ VIDEO_PROCESSING_QUEUE = <<>>
  /\ ACTIVE_VIDEO_PROCESSES = 0
  /\ jobs = [j \in 1..MaxJobs |-> [st |-> "unused", item |-> NoItem, got |-> NoItem]]
  /\ transcript = <<>>
  /\ gate = "none"
  /\ RestInit

\* the answer of the album route for every input
AnswerSpec == AnswerInit /\ [][ApplyAnswer]_vars

\* calls of storeImageUrl racing each other, nothing else
StoreRaceSpec ==
  Init /\ [][\/ \E u \in Urls, ok \in BOOLEAN : StoreCall(u, ok)
             \/ \E i \in 1..MaxStores, ok \in BOOLEAN : StoreMappingSettled(i, ok)
             \/ \E i \in 1..MaxStores : StoreLookupSettled(i)]_vars

\* the image endpoint: one request at a time, among calls of storeImageUrl
\* for one URL (whose mapping write succeeds or fails), the passing of time
\* and the hourly cleanup
ImageSpec ==
  Init /\ [][\/ Tick
             \/ \E ok1 \in BOOLEAN : StoreAlone("r", ok1, TRUE)
             \/ Cleanup
             \/ \E id \in SecureIds, m \in 0..MaxTime : ImageRequest(id, Etag(id, [mtime |-> m]))
             \/ \E id \in SecureIds : ImageRequest(id, NoEtag)
             \/ ImgGetImageUrl
             \/ ImgReadFile
             \/ \E e \in StripEnvs : ImgStrip(e)
             \/ ImgStat]_vars

\* trackTokenForRefresh(t) called on its own; runIn keeps the token and the
\* Map as it was before the call
TrackAlone(t) ==
  /\ recentlyAccessedTokens' = trackTokenForRefresh(recentlyAccessedTokens, t)
  /\ runIn' = [token |-> t, before |-> recentlyAccessedTokens]
  /\ UNCHANGED <<now, albumFile, reloadingState, refreshJob, tasks, runOut, runs,
                 pipeVars, gateVars, storeVars, imageVars>>

\* the tracker of recently read tokens on its own
TrackSpec ==
  Init /\ [][\/ Tick
             \/ \E t \in AllTokens : TrackAlone(t)]_vars

\* some route calls trackTokenForRefresh(t)
Track(t) ==
  /\ recentlyAccessedTokens' = trackTokenForRefresh(recentlyAccessedTokens, t)
  /\ UNCHANGED <<now, albumFile, reloadingState, refreshJob, tasks,
                 pipeVars, gateVars, runVars, storeVars, imageVars>>

\* getImageUrl(id) called on its own: a forward record older than
\* IMAGE_URL_MAP_TTL is unlinked; runOut keeps what the call returned and when
GetUrlAlone(id) ==
  /\ id <= minted
  /\ mappingFile' = IF mappingFile[id] # NoRecord /\ mappingExpired(id)
                    THEN [mappingFile EXCEPT ![id] = NoRecord]
                    ELSE mappingFile
  /\ lastId' = [u \in Urls |-> IF lastId[u] = id /\ mappingExpired(id)
                               THEN NoId ELSE lastId[u]]
  /\ runOut' = [id |-> id, at |-> now,
                url |-> IF mappingExpired(id) THEN "absent" ELSE mappingFile[id].url]
  /\ UNCHANGED <<lookupFile, stores, minted, lastPair, returned, imageVars, runIn, runs>>
  /\ UNCHANGED <<albumVars, pipeVars, gateVars>>

\* storeImageUrl, one call at a time, with the lazy expiry of getImageUrl and
\* the hourly pass
StoreExpirySpec ==
  Init /\ [][\/ Tick
             \/ \E u \in Urls, ok1, ok2 \in BOOLEAN : StoreAlone(u, ok1, ok2)
             \/ Cleanup
             \/ \E id \in SecureIds : GetUrlAlone(id)]_vars

\* the album cache read and written under every token a request may carry
SanitizeSpec ==
  Init /\ [][\/ Tick
             \/ \E t \in AllTokens \ {"B"}, rewritten, r \in BOOLEAN :
                  PutAlone(t, IF rewritten THEN rewriteImageUrls(Raw(t)) ELSE Raw(t), r)
             \/ \E t \in AllTokens \ {"B"} : GetAlone(t)]_vars

\* the scheduled refresh job over the tokens the tracker holds
RefreshSpec ==
  Init /\ [][\/ Tick
             \/ \E t \in Tokens \cup {"C_d"} : Track(t)
             \/ ScheduledRefresh
             \/ NextBatch
             \/ \E k \in 1..MaxTasks : TaskStep(k)]_vars

\* two image requests in flight: req is the request whose continuation runs
\* next, runIn holds the other one; the scheduler turns to the other request
Switch ==
  /\ req' = IF runIn = NoInput THEN Idle ELSE runIn
  /\ runIn' = req
  /\ UNCHANGED <<imageFile, runOut, runs, storeVars, albumVars, pipeVars, gateVars>>

\* the image endpoint with two requests in flight
ImageRaceSpec ==
  Init /\ [][\/ Tick
             \/ StoreAlone("r", TRUE, TRUE)
             \/ \E id \in SecureIds : ImageRequest(id, NoEtag)
             \/ ImgGetImageUrl
             \/ ImgReadFile
             \/ \E e \in StripEnvs : ImgStrip(e)
             \/ ImgStat
             \/ Switch]_vars

\* ------------------------------------------------------------ properties
\* the background reloads that stale reads of token t started and that have
\* not yet completed
Reloads(t) ==
  {k \in 1..MaxTasks : /\ tasks[k] # Idle
                        /\ tasks[k].token = t
                        /\ tasks[k].kind \in {"stale", "legacy"}}

\* C1: for every token and both stored record shapes, a stale read starts
\* one background refresh and a second stale read that arrives before that
\* refresh completes starts no second one: at no time are two background
\* refreshes started by stale reads of one token in progress.
C1_OneRefreshPerToken == \A t \in Tokens : Cardinality(Reloads(t)) <= 1

\* C2: a read that finds a stale record while the reloading flag of the token
\* is set answers with the stored value and calls the album fetch neither in
\* the background nor synchronously: no request is ever on the cache-miss
\* path (awaiting getImages) after having found a stale record with the flag
\* set.
C2_NoFetchWhileReloading ==
  \A k \in 1..MaxTasks :
    tasks[k] # Idle => ~(tasks[k].kind = "miss" /\ tasks[k].found = "staleReloading")

\* the executions of processVideoAugmentation in progress
Running == {i \in 1..MaxProcs : procs[i] # Idle}

\* C3: at every instant at most MAX_CONCURRENT_VIDEO_PROCESSES executions of
\* processVideoAugmentation are in progress, whoever started them (cache-miss
\* read, stale-read reload, scheduled refresh, augmentation endpoint).
C3_PipelineLimit == Cardinality(Running) <= MAX_CONCURRENT_VIDEO_PROCESSES

\* the executions the queue worker has started and that have not finished
RunningJobs == {i \in 1..MaxProcs : procs[i] # Idle /\ procs[i].job # 0}

\* C4: ACTIVE_VIDEO_PROCESSES is the number of jobs the queue worker has
\* started and not yet finished; it never exceeds
\* MAX_CONCURRENT_VIDEO_PROCESSES and never goes below zero.
C4_ActiveWithinLimit ==
  /\ ACTIVE_VIDEO_PROCESSES = Cardinality(RunningJobs)
  /\ ACTIVE_VIDEO_PROCESSES >= 0
  /\ ACTIVE_VIDEO_PROCESSES <= MAX_CONCURRENT_VIDEO_PROCESSES

\* C4's case: a burst larger than the limit, one job running and two waiting
C4_Burst ==
  /\ ACTIVE_VIDEO_PROCESSES = MAX_CONCURRENT_VIDEO_PROCESSES
  /\ Len(VIDEO_PROCESSING_QUEUE) >= 2

\* the promise of job j has settled with the outcome of the execution the
\* worker ran for that job's own item
Settled(j) ==
  /\ jobs[j].st \in {"resolved", "rejected"}
  /\ jobs[j].got = jobs[j].item

\* C5: every job passed to queueVideoProcessing is eventually started and
\* its promise eventually settles with that job's own result or error, with
\* no further enqueue call, provided every running execution terminates; a
\* failed job does not stop the jobs queued behind it.
C5_QueueDrains ==
  \A j \in 1..MaxJobs : (jobs[j].st \in {"queued", "running"}) ~> Settled(j)

\* C5's case: a job has failed and a job queued after it has settled
C5_LaterJobSettled ==
  \E a, b \in 1..MaxJobs :
    /\ a < b
    /\ jobs[a].st = "rejected"
    /\ Settled(b)
    /\ VIDEO_PROCESSING_QUEUE = <<>>

\* C6: once a success record or a permanent-skip record of an item is on
\* disk, no step of any execution of processVideoAugmentation, queued or
\* direct, overwrites or deletes it.
C6_FinalRecordKept ==
  [][\A item \in Items : augFile[item] # NoRecord => augFile'[item] = augFile[item]]_vars

\* the last call run on its own reached extractAudioFromVideo, which ended res
Extracted(res) ==
  /\ runs > 0
  /\ "download" \in runOut.calls
  /\ runIn.in.extract \in res

\* a call for item started now calls getVideoDuration, and extractAudioFromVideo
\* unless the video is too short
Reruns(item) ==
  \A in \in Inputs :
    LET ret == processVideoAugmentation(augFile, item, in)
    IN /\ "probe" \in ret.calls
       /\ ret.rec # Skip("too_short", getVideoDuration(in.probe)) => "download" \in ret.calls

\* C7: when extraction fails on an expired or unauthorized link (HTTP 401 or
\* 403), the call rejects and no record of the item is on disk afterwards, so
\* that a repeated call runs the duration probe and the extraction again.
C7_ExpiredLinkLeavesNoRecord ==
  Extracted({"http401", "http403"}) =>
    /\ runOut.out = "rejected"
    /\ augFile[runIn.item] = NoRecord
    /\ Reruns(runIn.item)

\* C7's case: a call has failed on an expired link
C7_ExpiredLinkSeen == Extracted({"http401", "http403"}) /\ runOut.out = "rejected"

\* C8: when ffmpeg crashes (segfault, killed by a signal) during extraction,
\* the call writes a permanent skip record with the crash reason and returns
\* it.
C8_CrashWritesSkip ==
  Extracted({"crash"}) =>
    /\ runOut.out = "resolved"
    /\ runOut.rec = Skip("ffmpeg_crash", Null)
    /\ augFile[runIn.item] = Skip("ffmpeg_crash", Null)

\* the last call run on its own probed a duration that is known and below 10 s
ProbedShort ==
  /\ runs > 0
  /\ "probe" \in runOut.calls
  /\ getVideoDuration(runIn.in.probe) # Null
  /\ getVideoDuration(runIn.in.probe) < MIN_DURATION

\* C9: a call whose probe returns a known duration below 10 seconds writes
\* and returns the record skipped / "too_short" and calls neither download,
\* extraction, transcription nor summarization.
C9_ShortVideoSkipped ==
  ProbedShort =>
    /\ runOut.out = "resolved"
    /\ runOut.rec = Skip("too_short", getVideoDuration(runIn.in.probe))
    /\ augFile[runIn.item] = runOut.rec
    /\ runOut.calls = {"probe"}

\* C9's case: a call has probed a short video
C9_ShortVideoSeen == ProbedShort /\ runOut.rec.reason = "too_short"

\* C10: the quality gate skips as low quality a transcript of about 90%
\* "(background music)" markers plus 8 real words, and does not skip on
\* quality grounds the same transcript with 30 more real words (each longer
\* than 2 characters) interspersed between the markers.
C10_QualityGate ==
  gate # "none" =>
    /\ Count(transcript, "W") = 8 => gate = "low_quality_transcription"
    /\ Count(transcript, "W") = 8 + 30 => gate # "low_quality_transcription"

\* the first half of C10 alone
C10_FewWordsSkipped ==
  (gate # "none" /\ Count(transcript, "W") = 8) => gate = "low_quality_transcription"

\* C11: for every URL u, when a call storeImageUrl(u) returned an id, the
\* lookup record of u naming that id and the forward record of the id stayed
\* on disk untouched until the next call storeImageUrl(u) started, that next
\* call returns the same id.
C11_SameIdTwice ==
  \A u \in Urls : lastPair[u] # NoPair => lastPair[u][1] = lastPair[u][2]

\* a second call found the records of the first, after some other record was
\* swept away
C11_SecondCallSeen ==
  \E u \in Urls :
    /\ lastPair[u] # NoPair
    /\ \E id \in 1..minted : mappingFile[id] = NoRecord

StoresOf(u) == {i \in 1..MaxStores : stores[i] # Idle /\ stores[i].url = u}

ReturnedIds(u) == {r.id : r \in returned[u]}

\* no call was made for another URL of the same hash
NoCollidingCalls(u) ==
  \A v \in Urls \ {u} :
    urlHash(v) = urlHash(u) => returned[v] = {} /\ StoresOf(v) = {}

ReadBack ==
  /\ runIn # NoInput
  /\ runOut # NoOutput
  /\ runOut.token = runIn.token

\* C13: an album record read back before CACHE_TTL has elapsed since it was
\* written comes with isStale = false; read back after more than CACHE_TTL,
\* no write in between, it comes with isStale = true and with exactly the
\* value written.
C13_RoundTrip ==
  ReadBack =>
    /\ runOut.got # NoOutput
    /\ runOut.at - runIn.at < CACHE_TTL => ~runOut.got.isStale
    /\ runOut.at - runIn.at > CACHE_TTL =>
         runOut.got.isStale /\ runOut.got.data = runIn.data

\* a record was read back stale
C13_StaleReadSeen ==
  ReadBack /\ runOut.at - runIn.at > CACHE_TTL /\ runOut.got.isStale

\* C14: an album read answers with an error only when it found no cached
\* record for the token and the album fetch fails; a read that found a
\* record, fresh or stale, answers with album data even if the fetch fails.
C14_ErrorOnlyOnColdMiss ==
  [][\A k \in 1..MaxTasks :
       (tasks[k] # Idle /\ tasks[k].kind = "miss" /\ TaskFetchFail(k))
         => tasks[k].found = "absent"]_vars

\* an image request was answered
Answered == req.pc = "answered"

\* C21: when setCachedData(token, value) completes for a write that ends a
\* refresh (isReloading = false), the reloading flag of the token is false,
\* whatever the flag was and whether or not a record existed before.
C21_PutClearsFlag ==
  [][\A k \in 1..MaxTasks :
       (TaskSetWrite(k) /\ tasks[k].kind # "miss") => ~reloadingState'[tasks[k].token]]_vars

\* C22: the reloading flag of a token is true only while a background
\* refresh of that token is in flight.
C22_FlagOnlyWhileReloading ==
  \A t \in Tokens : reloadingState[t] => Reloads(t) # {}

\* C23: an album read that finds the record stale while no background
\* refresh of the token is in flight starts a background refresh.
C23_StaleReadRevalidates ==
  [][\A t \in Tokens :
       (/\ AlbumRead(t, FALSE)
        /\ albumFile[t] # NoRecord /\ isStale(albumFile[t])
        /\ Reloads(t) = {})
         => Reloads(t)' # {}]_vars

\* C24: when the album fetch of a background refresh (stale-read reload or
\* scheduled refresh) fails, the stored album records and their timestamps
\* stay as they were: nothing is written in place of the previous value.
C24_FailedRefreshKeepsRecord ==
  [][\A k \in 1..MaxTasks :
       (/\ tasks[k] # Idle /\ tasks[k].pc = "fetch" /\ tasks[k].kind # "miss"
        /\ tasks'[k] = Idle)
         => albumFile' = albumFile]_vars

\* the fetch of a background refresh has failed and a record is stored
C24_FailedRefreshSeen ==
  /\ runOut = [out |-> "refreshFailed"]
  /\ \E t \in Tokens : albumFile[t] # NoRecord

\* C25: every album record in the cache, written by a cache miss, by a
\* stale-read reload or by the scheduled refresh, holds the album as
\* fetched, its URLs not rewritten.
C25_RecordsHoldRawAlbum ==
  \A t \in Tokens : albumFile[t] # NoRecord => albumFile[t].data = Raw(t)

\* C26: once a record of an item is on disk, a later call of
\* processVideoAugmentation for that item (one that found the cache file at
\* its start) returns the record and runs no duration probe, download,
\* extraction, transcription or summarization: it never goes on from its
\* read of the cache file to the duration probe.
C26_CachedRecordReturned ==
  [][\A i \in 1..MaxProcs :
       (procs[i] # Idle /\ procs[i].pc = "readFile")
         => ~(/\ procs'[i] # Idle
              /\ procs'[i].item = procs[i].item /\ procs'[i].job = procs[i].job
              /\ procs'[i].pc = "probe")]_vars

\* a call has reached the summarization, which answered with the
\* insufficient-content sentinel
SentinelAnswered ==
  /\ runIn # NoInput /\ runOut # NoOutput
  /\ "blogify" \in runOut.calls
  /\ runIn.in.blogify = "insufficient"

\* C27: when the summarization answers with the insufficient-content
\* sentinel, the call writes the skip record with reason
\* insufficient_content and resolves with it; it neither rejects nor writes
\* a success record.
C27_SentinelSkips ==
  SentinelAnswered =>
    /\ runOut.out = "resolved"
    /\ runOut.rec = Skip("insufficient_content", Null)
    /\ augFile[runIn.item] = runOut.rec

\* C27's case: the sentinel was answered and the skip record is on disk
C27_SentinelSeen ==
  SentinelAnswered /\ augFile[runIn.item].reason = "insufficient_content"

\* C28: when the download or the audio extraction exceeds its timeout, the
\* call rejects with a transient failure (one the outer catch does not
\* cache) and no record of the item, in particular no crash skip, is on disk
\* afterwards, although the kill of ffmpeg raises a 'killed' error event.
C28_TimeoutIsTransient ==
  Extracted({"abortTimeout", "timeout"}) =>
    /\ runOut.out = "rejected"
    /\ IsTransient(runOut.err)
    /\ augFile[runIn.item] = NoRecord

\* C28's case: ffmpeg was killed on its timeout and the call has rejected
C28_TimeoutSeen ==
  Extracted({"timeout"}) /\ "ffmpeg" \in runOut.calls /\ runOut.out = "rejected"

\* C29: the jobs waiting in the queue are started in the order in which
\* queueVideoProcessing was called for them (the order of their numbers): no
\* job has been started while a job enqueued earlier is still waiting.
C29_StartedInOrder ==
  \A a, b \in 1..MaxJobs :
    (a < b /\ jobs[b].st \in {"running", "resolved", "rejected"})
      => jobs[a].st # "queued"

\* C29's case: the first job is done, the second runs, the third waits
C29_ThreeInOrder ==
  /\ Settled(1)
  /\ jobs[2].st = "running"
  /\ jobs[3].st = "queued"

\* C30: when a call ends in success or in a skip, the scratch audio file and
\* the scratch video file it created have been unlinked by the time it has
\* returned.
C30_ScratchFilesRemoved ==
  (runs > 0 /\ runOut.out = "resolved") => runOut.scratch = {}

\* C30's case: a call that extracted the audio has ended in a skip
C30_SkipAfterExtractionSeen ==
  /\ runs > 0 /\ runOut.out = "resolved"
  /\ "ffmpeg" \in runOut.calls
  /\ runOut.rec.kind = "skip"

\* C31: under every interleaving of image requests for one secureId, a
\* derivative file that exists and is younger than CACHE_TTL is never
\* overwritten: no request writes the derivative while it is fresh.
C31_FreshNeverOverwritten ==
  [][\A e \in StripEnvs :
       (ImgStrip(e) /\ stripExifLocation(e) # "throws")
         => ~(/\ imageFile[req.id] # NoRecord
              /\ now - imageFile[req.id].mtime < CACHE_TTL)]_vars

\* C32: when getImageUrl settles, it has returned a URL only if the forward
\* record exists and is no older than IMAGE_URL_MAP_TTL; when the record is
\* older it is deleted, and when it is older or absent nothing is returned.
C32_NoUrlFromExpiredRecord ==
  [][(req.pc = "getImageUrl" /\ req' # req)
       => LET m == mappingFile[req.id] IN
          IF m # NoRecord /\ now - m.timestamp <= IMAGE_URL_MAP_TTL
          THEN req'.pc = "strip" /\ mappingFile'[req.id] = m
          ELSE req'.pc # "strip" /\ mappingFile'[req.id] = NoRecord]_vars

\* getImageUrl met a forward record older than IMAGE_URL_MAP_TTL and deleted
\* it: the lookup record written with it still names the id
C32_ExpiredRecordDeleted ==
  /\ req.pc \in {"readFile", "answered"}
  /\ ~req.upstream
  /\ mappingFile[req.id] = NoRecord
  /\ lookupFile[urlHash("r")] # NoRecord
  /\ lookupFile[urlHash("r")].secureId = req.id

\* C33: a derivative image whose forward mapping has expired does not outlive
\* the cleanup sweep: after a sweep no derivative is left whose forward record
\* was expired, or was already removed (by the lazy expiry of getImageUrl),
\* when the sweep ran.
C33_SweepDeletesExpiredDerivatives ==
  [][Cleanup
       => \A id \in SecureIds :
            ( /\ imageFile[id] # NoRecord
              /\ \/ mappingFile[id] = NoRecord
                 \/ now - mappingFile[id].timestamp > IMAGE_URL_MAP_TTL )
              => imageFile'[id] = NoRecord]_vars

\* C34: after a call trackTokenForRefresh(t) the Map holds at most
\* MAX_TRACKED_TOKENS entries, t is among them, and every token the call
\* evicted had a lastAccessed no later than that of every token it kept.
C34_TrackedMapBounded ==
  runIn # NoInput =>
    LET m == recentlyAccessedTokens
        before == runIn.before
        evicted == {i \in DOMAIN before : before[i].token \notin TrackedTokens(m)}
    IN /\ Len(m) <= MAX_TRACKED_TOKENS
       /\ runIn.token \in TrackedTokens(m)
       /\ \A i \in evicted, k \in DOMAIN m : before[i].lastAccessed <= m[k].lastAccessed

\* a token was tracked while the Map was full of other tokens, two of them
\* read at different times
C34_EvictionSeen ==
  /\ runIn # NoInput
  /\ Len(runIn.before) = MAX_TRACKED_TOKENS
  /\ runIn.token \notin TrackedTokens(runIn.before)
  /\ runIn.before[1].lastAccessed > runIn.before[2].lastAccessed

\* C35: every album read that is answered with album data from the cache (a
\* record in the old, already rewritten format, a fresh record, or a stale
\* record whose reload is started) leaves the token in the Map of recently
\* read tokens with lastAccessed equal to the time of the read.
C35_ReadTracksToken ==
  [][\A t \in Tokens :
       LET cached == albumFile[sanitizeToken(t)] IN
       ( /\ AlbumRead(t, FALSE)
         /\ cached # NoRecord
         /\ \/ hasRewrittenUrls(cached.data)
            \/ ~isStale(cached)
            \/ ~reloadingState[t] )
         => \E i \in DOMAIN recentlyAccessedTokens' :
              recentlyAccessedTokens'[i] = [token |-> t, lastAccessed |-> now]]_vars

\* C36: one run of the scheduled refresh removes every tracked token whose
\* age is at least TOKEN_ACCESS_TTL and never refreshes it, calls
\* refreshTokenInBackground exactly once for each token that remains, has at
\* most BATCH_SIZE of its refreshes unsettled at any instant, and starts a
\* batch only when every refresh of the batch before it has settled.
C36_BatchedRefresh ==
  /\ [](refreshJob # Idle =>
          /\ Cardinality(BatchTasks) <= BATCH_SIZE
          /\ refreshJob.started \o refreshJob.rest = refreshJob.list
          /\ \A i, j \in DOMAIN refreshJob.list :
               refreshJob.list[i] = refreshJob.list[j] => i = j
          /\ \A i \in DOMAIN refreshJob.list : refreshJob.list[i] \notin refreshJob.removed)
  /\ [][LET m == recentlyAccessedTokens
            expired == {m[i].token : i \in {j \in DOMAIN m :
                                              now - m[j].lastAccessed >= TOKEN_ACCESS_TTL}}
            newTasks == {k \in 1..MaxTasks : /\ tasks[k] = Idle
                                             /\ tasks'[k] # Idle
                                             /\ tasks'[k].kind = "sched"}
            Added(before, after) ==
              /\ Len(after) = Len(before) + Cardinality(newTasks)
              /\ {after[i] : i \in Len(before) + 1 .. Len(after)}
                   = {tasks'[k].token : k \in newTasks}
        IN /\ (refreshJob = Idle /\ refreshJob' # Idle)
                => /\ refreshJob'.removed = expired
                   /\ {refreshJob'.list[i] : i \in DOMAIN refreshJob'.list}
                        = TrackedTokens(m) \ expired
                   /\ TrackedTokens(recentlyAccessedTokens') = TrackedTokens(m) \ expired
                   /\ Added(<<>>, refreshJob'.started)
           /\ (refreshJob = Idle /\ refreshJob' = Idle
                  /\ TrackedTokens(recentlyAccessedTokens') \subseteq TrackedTokens(m)
                  /\ TrackedTokens(recentlyAccessedTokens') # TrackedTokens(m))
                => recentlyAccessedTokens' = <<>> /\ expired = TrackedTokens(m)
           /\ (refreshJob # Idle /\ refreshJob' # Idle)
                => /\ refreshJob'.list = refreshJob.list
                   /\ refreshJob'.removed = refreshJob.removed
                   /\ Added(refreshJob.started, refreshJob'.started)
                   /\ newTasks # {} => BatchTasks = {}
           /\ (refreshJob # Idle /\ refreshJob' = Idle)
                => /\ refreshJob.started = refreshJob.list
                   /\ BatchTasks = {}
                   /\ newTasks = {}
           /\ (refreshJob = Idle /\ refreshJob' = Idle) => newTasks = {}]_vars

\* a run dropped an old token and is in its second batch
C36_SecondBatchSeen ==
  /\ refreshJob # Idle
  /\ refreshJob.removed # {}
  /\ Len(refreshJob.started) = 2
  /\ BatchTasks # {}

\* C37: at every instant at most one job of the queue, waiting or running,
\* is for a given item (albumToken, photoGuid).
C37_OneJobPerItem ==
  \A item \in Items :
    Cardinality({j \in 1..MaxJobs : /\ jobs[j].item = item
                                    /\ jobs[j].st \in {"queued", "running"}}) <= 1

\* C38: the id a call storeImageUrl(u) returns, its writes succeeding,
\* resolves to u at the moment of the return: the forward record of the id
\* exists, holds u and is no older than IMAGE_URL_MAP_TTL, so that
\* getImageUrl called then would return u.
C38_ReturnedIdResolves ==
  [][\A u \in Urls :
       StoreAlone(u, TRUE, TRUE)
         => /\ lastId'[u] # NoId
            /\ mappingFile'[lastId'[u]].url = u
            /\ now - mappingFile'[lastId'[u]].timestamp <= IMAGE_URL_MAP_TTL]_vars

\* C40: when the lookup record of u names a forward record that is no longer
\* on disk, or holds another URL of the same hash, a call storeImageUrl(u)
\* generates a new id and, its writes succeeding, writes the forward record
\* id -> u and overwrites the lookup record with u -> id; whether the writes
\* succeed or not, the forward record of the id it returns never holds a URL
\* other than u.
C40_MintsWhenRecordGone ==
  [][\A u \in Urls, ok1, ok2 \in BOOLEAN :
       LET lk == lookupFile[urlHash(u)]
           id == minted + 1
       IN ( /\ StoreAlone(u, ok1, ok2)
            /\ lk # NoRecord
            /\ lk.secureId # NoId
            /\ lk.url # u \/ mappingFile[lk.secureId] = NoRecord )
            => /\ minted' = id
               /\ mappingFile'[id] # NoRecord => mappingFile'[id].url = u
               /\ (ok1 /\ ok2)
                    => /\ mappingFile'[id] = [url |-> u, timestamp |-> now]
                       /\ lookupFile'[urlHash(u)]
                            = [url |-> u, secureId |-> id, timestamp |-> now]]_vars

\* getImageUrl has just unlinked the expired forward record of the first id,
\* and a call storeImageUrl made at that instant has left a second id for the
\* URL, in the lookup record and in a forward record
C40_NewIdAfterExpiry ==
  /\ runOut # NoOutput
  /\ runOut.id = 1 /\ runOut.url = "absent" /\ runOut.at = now
  /\ mappingFile[1] = NoRecord
  /\ \E u \in Urls :
       /\ lookupFile[urlHash(u)] = [url |-> u, secureId |-> 2, timestamp |-> now]
       /\ mappingFile[2] = [url |-> u, timestamp |-> now]

\* C39: the album records of distinct tokens are isolated: what
\* getCachedData(t) returns is the album that was stored for t, never the
\* album of another token.
C39_ReadsOwnAlbum ==
  (runOut # NoOutput /\ runOut.got # NoOutput) => runOut.got.data.owner = runOut.token

\* C15: every blob the image endpoint persists as a derivative or sends is the
\* output of the transform; the bytes as fetched are never persisted nor sent,
\* also when the transform fails.
C15_OnlyTransformedBytes ==
  /\ \A id \in SecureIds : imageFile[id] # NoRecord => imageFile[id].bytes = "transformed"
  /\ Answered => req.body \in {"transformed", "-"}

\* C16: when a stale derivative is on disk, the mapping resolves and the
\* fetch or the transform fails, the endpoint sends the bytes of the stale
\* derivative and leaves the file as it was.
C16_StaleServedOnFailure ==
  (Answered /\ req.exists /\ req.upstream /\ req.failed /\ req.file # NoRecord)
    => /\ req.status = 200
       /\ req.body = req.had.bytes
       /\ req.file = req.had

\* C17, as stated: when the mapping of the secureId is absent or expired, the
\* endpoint does not contact the upstream, answers 404 if no derivative
\* exists and sends the derivative's bytes if one exists.
C17_OrphanServedOr404 ==
  (Answered /\ req.orphan)
    => /\ ~req.upstream
       /\ IF req.file = NoRecord THEN req.status = 404
          ELSE req.status = 200 /\ req.body = req.file.bytes

\* C17, amended: when the mapping of the secureId is absent or expired, the
\* endpoint does not contact the upstream; it answers 404 if no derivative
\* exists; if one exists it sends the derivative's bytes or, to a request
\* whose If-None-Match equals the derivative's ETag, answers 304 without body.
C17_OrphanServedOr304 ==
  (Answered /\ req.orphan)
    => /\ ~req.upstream
       /\ IF req.file = NoRecord THEN req.status = 404
          ELSE \/ req.status = 200 /\ req.body = req.file.bytes
               \/ /\ req.status = 304 /\ req.body = "-"
                  /\ req.match /\ req.file = req.had

\* a stale derivative whose mapping has expired was sent
C17_OrphanSent ==
  /\ Answered /\ req.orphan
  /\ req.had # NoRecord /\ mappingFile[req.id] = NoRecord
  /\ req.status = 200 /\ req.body = req.had.bytes

\* C18: for a derivative that does not change on disk, a request whose
\* If-None-Match equals the ETag made of the secureId and the derivative's
\* mtime is answered 304 without body.
C18_NotModified ==
  (Answered /\ req.had # NoRecord /\ req.match /\ req.file = req.had)
    => req.status = 304 /\ req.body = "-"

\* C19, as stated: on every read path every derivative URL of an album
\* response is an opaque reference /api/image/<secureId>.jpg, never an
\* upstream URL.
C19_AllUrlsOpaque ==
  (runOut # NoOutput /\ runOut.status = 200)
    => \A i \in DOMAIN runOut.data.urls : runOut.data.urls[i] = "opaque"

\* C19, amended: on every read path every derivative URL of an album
\* response that does not contain ".mp4" is an opaque reference
\* /api/image/<secureId>.jpg, never an upstream URL.
C19_ImageUrlsOpaque ==
  (runOut # NoOutput /\ runOut.status = 200)
    => \A i \in DOMAIN runOut.data.urls :
         runOut.data.urls[i] # "video" => runOut.data.urls[i] = "opaque"

\* a stale record with an upstream image URL and a video URL was answered:
\* the image URL opaque, the video URL as it was
C19_StaleAnswerSeen ==
  /\ runOut # NoOutput /\ runOut.status = 200 /\ runOut.path = "stale"
  /\ runIn.cached.data.urls = <<"image", "video">>
  /\ runOut.data.urls = <<"opaque", "video">>

\* C20: the cleanup pass decides each file by its own age: it leaves alone
\* every derivative image that is within IMAGE_RETENTION_TTL, whatever the
\* age of the mapping of the same secureId.
C20_CleanupByOwnAge ==
  [][Cleanup =>
       \A id \in SecureIds :
         (imageFile[id] # NoRecord /\ now - imageFile[id].mtime <= IMAGE_RETENTION_TTL)
           => imageFile'[id] = imageFile[id]]_vars

====
